---- MODULE Spec2Model ----
(***************************************************************************)
(* Model of the stock-data pipeline:                                       *)
(*   src/scripts/fetch_stock_data.py  (StockDataFetcher and the runner)    *)
(*   src/dags/stock_data_pipeline.py  (table creation and the DAG order)   *)
(*                                                                         *)
(* The specifications share the variables:                                 *)
(*   Spec       the DAG: create_stock_table, then                          *)
(*              fetch_and_process_stock_data, run after run;               *)
(*   SpecFetch  fetch_stock_data applied to every transport result;        *)
(*   SpecParse  parse_stock_data applied to every decoded body;            *)
(*   SpecStore  store_data applied to every sequence of observations;      *)
(*   SpecCrash  runs that can be killed at any point and are run again     *)
(*              against the same provider responses;                       *)
(*   SpecOverlap  the store transactions of two runs, interleaved.         *)
(***************************************************************************)
EXTENDS Integers, Sequences, FiniteSets, TLC

VARIABLES
    store,              \* committed rows of table stock_data
    tableExists,        \* CREATE TABLE IF NOT EXISTS has run
    clock,              \* CURRENT_TIMESTAMP of the database
    runs,               \* DAG runs started so far
    pc,                 \* position of the DAG run
    api_key,            \* op_kwargs['api_key']
    symbols,            \* op_kwargs['symbols']
    idx,                \* position of the for loop in symbols
    symbol,             \* the loop's symbol after strip().upper()
    raw_data,           \* result of fetcher.fetch_stock_data(symbol)
    parsed_data,        \* result of fetcher.parse_stock_data(symbol, raw_data)
    cursor,             \* position of the for loop of store_data in data
    txWrites,           \* rows written by the open transaction, not committed
    txStart,            \* CURRENT_TIMESTAMP of the open transaction
    successful_symbols, \* counter of the run
    total_records,      \* counter of the run
    log,                \* what the run did, one entry per event
    summaries,          \* the "Pipeline completed" lines the run logged
    written,            \* per key, the latest committed write and its first
    arg,                \* SpecFetch, SpecParse: the input of the function
    ret,                \* SpecFetch, SpecParse: its result
    plan,               \* SpecCrash: the symbol list and the provider's answers
    txs                 \* SpecOverlap: the store_data calls of the two runs

vars == <<store, tableExists, clock, runs, pc, api_key, symbols, idx, symbol,
          raw_data, parsed_data, cursor, txWrites, txStart,
          successful_symbols, total_records, log, summaries, written,
          arg, ret, plan, txs>>

(***************************************************************************)
(* Bounds.                                                                 *)
(***************************************************************************)
MaxRuns == 2
MaxEntries == 2

(***************************************************************************)
(* Python values.                                                          *)
(***************************************************************************)
Absent == "<absent>"
JNull == "<null>"

Returned(v) == [tag |-> "return", value |-> v]
Raised(e) == [tag |-> "raise", exc |-> e]

\* float(x) for the wire strings of the model; 0 is the .get default.
float(x) ==
    CASE x = JNull -> Raised("TypeError")
      [] x = Absent -> Returned([fin |-> TRUE, n |-> 0])
      [] x = "1.0" -> Returned([fin |-> TRUE, n |-> 1])
      [] x = "2.0" -> Returned([fin |-> TRUE, n |-> 2])
      [] x = "3.0" -> Returned([fin |-> TRUE, n |-> 3])
      [] x = "10" -> Returned([fin |-> TRUE, n |-> 10])
      [] x = "20" -> Returned([fin |-> TRUE, n |-> 20])
      [] x = "inf" -> Returned([fin |-> FALSE, n |-> 0])
      [] OTHER -> Raised("ValueError")

\* int(x): a string with a decimal point or "inf" is no integer literal.
int(x) ==
    CASE x = JNull -> Raised("TypeError")
      [] x = Absent -> Returned(0)
      [] x = "10" -> Returned(10)
      [] x = "20" -> Returned(20)
      [] OTHER -> Raised("ValueError")

\* datetime.strptime(timestamp, '%Y-%m-%d %H:%M:%S'), as hours of 2024-01-01;
\* %m and %d accept one digit.
strptime(timestamp) ==
    CASE timestamp = "2024-01-01 10:00:00" -> Returned(10)
      [] timestamp = "2024-1-1 10:00:00" -> Returned(10)
      [] timestamp = "2024-01-01 11:00:00" -> Returned(11)
      [] OTHER -> Raised("ValueError")

\* str.upper() and str.strip() on strings held as sequences of characters.
UpperChar(c) ==
    CASE c = "a" -> "A" [] c = "p" -> "P" [] c = "l" -> "L"
      [] c = "m" -> "M" [] c = "s" -> "S" [] c = "f" -> "F" [] c = "t" -> "T"
      [] OTHER -> c

IsSpace(c) == c \in {" ", "\t", "\n"}

RECURSIVE lstrip(_)
lstrip(s) == IF s # <<>> /\ IsSpace(Head(s)) THEN lstrip(Tail(s)) ELSE s

RECURSIVE rstrip(_)
rstrip(s) ==
    IF s # <<>> /\ IsSpace(s[Len(s)]) THEN rstrip(SubSeq(s, 1, Len(s) - 1)) ELSE s

strip(s) == rstrip(lstrip(s))

upper(s) == [j \in 1..Len(s) |-> UpperChar(s[j])]

(***************************************************************************)
(* Provider responses.                                                     *)
(***************************************************************************)
\* The field mapping of one time-series entry, or a value that is no mapping.
Fields(o, h, l, c, v) == [map |-> TRUE, o |-> o, h |-> h, l |-> l, c |-> c, v |-> v]
NotAMapping == [map |-> FALSE, o |-> Absent, h |-> Absent, l |-> Absent,
                c |-> Absent, v |-> Absent]

Good1 == Fields("1.0", "2.0", "1.0", "2.0", "10")
Good2 == Fields("2.0", "3.0", "1.0", "3.0", "20")
MissingVolume == Fields("1.0", "2.0", "1.0", "2.0", Absent)
MissingOpen == Fields(Absent, "2.0", "1.0", "2.0", "10")
NullOpen == Fields(JNull, "2.0", "1.0", "2.0", "10")
NonNumericClose == Fields("1.0", "2.0", "1.0", "abc", "10")
DecimalVolume == Fields("1.0", "2.0", "1.0", "2.0", "1.0")
InfiniteHigh == Fields("1.0", "inf", "1.0", "2.0", "10")

EntryValues == {Good1, Good2, MissingVolume, MissingOpen, NullOpen,
                NonNumericClose, DecimalVolume, InfiniteHigh, NotAMapping}

WireTimestamps == {"2024-01-01 10:00:00", "2024-1-1 10:00:00",
                   "2024-01-01 11:00:00", "yesterday"}

Entry(timestamp, values) == [timestamp |-> timestamp, values |-> values]

\* A JSON object keeps its keys distinct.
DistinctKeys(ts) ==
    \A a, b \in 1..Len(ts) : a # b => ts[a].timestamp # ts[b].timestamp

SeqsUpTo(S, n) == UNION {[1..m -> S] : m \in 0..n}

TimeSeriesOf(n) ==
    {ts \in SeqsUpTo([timestamp : WireTimestamps, values : EntryValues], n) :
        DistinctKeys(ts)}

\* 'Meta Data': a missing key, a mapping whose two fields may be missing, or
\* a value that is no mapping (kind "other").
MetaMissing == [kind |-> "missing", lr |-> Absent, tz |-> Absent]
MetaOther == [kind |-> "other", lr |-> Absent, tz |-> Absent]
Meta(lr, tz) == [kind |-> "mapping", lr |-> lr, tz |-> tz]
MetaA == Meta("2024-01-01 11:00:00", "US/Eastern")
MetaB == Meta("2024-01-01 12:00:00", "UTC")
MetaDatas == {MetaMissing, MetaOther, MetaA, MetaB, Meta(Absent, Absent)}

\* A decoded body. An object carries its keys: 'Error Message', 'Note',
\* 'Time Series (60min)' (seriesKind: missing, mapping, other) and 'Meta Data'.
\* A list carries its items and a string its characters.
Object(err, note, seriesKind, series, meta) ==
    [type |-> "object", err |-> err, note |-> note, seriesKind |-> seriesKind,
     series |-> series, meta |-> meta, items |-> <<>>]
NonObject(t, items) ==
    [type |-> t, err |-> FALSE, note |-> FALSE, seriesKind |-> "missing",
     series |-> <<>>, meta |-> MetaMissing, items |-> items]

None == NonObject("None", <<>>)
DataBody(series, meta) == Object(FALSE, FALSE, "mapping", series, meta)
EmptyObject == Object(FALSE, FALSE, "missing", <<>>, MetaMissing)
JsonNull == NonObject("null", <<>>)
JsonNumber == NonObject("number", <<>>)
JsonList(items) == NonObject("list", items)
\* The strings of the model, "" and "oops", hold neither key as a substring.
JsonString(chars) == NonObject("string", chars)

\* What requests.get, raise_for_status and response.json() come to.
Transport(kind, body) == [kind |-> kind, body |-> body]
TransportFailures ==
    {Transport(k, None) : k \in {"connection_error", "timeout", "http_error"}}
Undecodable == Transport("undecodable", None)
Json(body) == Transport("json", body)

(***************************************************************************)
(* StockDataFetcher.fetch_stock_data                                       *)
(***************************************************************************)
\* key in data
Contains(data, key) ==
    CASE data.type = "object" ->
            Returned(IF key = "Error Message" THEN data.err ELSE data.note)
      [] data.type = "list" ->
            Returned(\E j \in 1..Len(data.items) : data.items[j] = key)
      [] data.type = "string" -> Returned(FALSE)
      [] OTHER -> Raised("TypeError")

\* data[key], evaluated for the log message
Subscript(data, key) ==
    IF data.type = "object" THEN Returned(key) ELSE Raised("TypeError")

\* except requests.exceptions.RequestException / except ValueError
FetchHandler(result) ==
    IF result.tag = "raise" /\ result.exc \in {"RequestException", "ValueError"}
    THEN Returned(None)
    ELSE result

FetchBody(resp) ==
    CASE resp.kind \in {"connection_error", "timeout", "http_error"} ->
            Raised("RequestException")
      [] resp.kind = "undecodable" -> Raised("ValueError")
      [] OTHER ->
            LET data == resp.body
                hasError == Contains(data, "Error Message")
                hasNote == Contains(data, "Note")
            IN  CASE hasError.tag = "raise" -> hasError
                  [] hasError.value ->
                        IF Subscript(data, "Error Message").tag = "raise"
                        THEN Subscript(data, "Error Message")
                        ELSE Returned(None)
                  [] hasNote.tag = "raise" -> hasNote
                  [] hasNote.value ->
                        IF Subscript(data, "Note").tag = "raise"
                        THEN Subscript(data, "Note")
                        ELSE Returned(None)
                  [] OTHER -> Returned(data)

fetch_stock_data(resp) == FetchHandler(FetchBody(resp))

\* not raw_data
Falsy(data) ==
    CASE data.type = "None" -> TRUE
      [] data.type = "object" ->
            ~data.err /\ ~data.note /\ data.seriesKind = "missing"
            /\ data.meta.kind = "missing"
      [] OTHER -> data.items = <<>>

(***************************************************************************)
(* StockDataFetcher.parse_stock_data                                       *)
(***************************************************************************)
NoneStr == "None"

\* mapping.get(key): the value, or None for a missing key
GetOrNone(v) == IF v = Absent THEN NoneStr ELSE v

\* The dict literal of one data point, its items evaluated in order; the
\* first exception ends the evaluation.
DataPoint(sym, entry, metadata) ==
    LET values == entry.values
        t == strptime(entry.timestamp)
        o == float(values.o)
        h == float(values.h)
        l == float(values.l)
        c == float(values.c)
        v == int(values.v)
    IN  CASE t.tag = "raise" -> t
          [] ~values.map -> Raised("AttributeError")
          [] o.tag = "raise" -> o
          [] h.tag = "raise" -> h
          [] l.tag = "raise" -> l
          [] c.tag = "raise" -> c
          [] v.tag = "raise" -> v
          [] metadata.kind = "other" -> Raised("AttributeError")
          [] OTHER ->
                Returned([symbol |-> sym,
                          timestamp |-> t.value,
                          open_price |-> o.value,
                          high_price |-> h.value,
                          low_price |-> l.value,
                          close_price |-> c.value,
                          volume |-> v.value,
                          last_refreshed |-> GetOrNone(metadata.lr),
                          time_zone |-> GetOrNone(metadata.tz)])

\* The for loop over time_series.items(): except (ValueError, TypeError)
\* skips the entry, any other exception leaves the loop.
RECURSIVE ParseLoop(_, _, _, _)
ParseLoop(sym, series, metadata, acc) ==
    IF series = <<>> THEN Returned(acc)
    ELSE LET point == DataPoint(sym, Head(series), metadata)
         IN  CASE point.tag = "return" ->
                    ParseLoop(sym, Tail(series), metadata, Append(acc, point.value))
               [] point.exc \in {"ValueError", "TypeError"} ->
                    ParseLoop(sym, Tail(series), metadata, acc)
               [] OTHER -> point

ParseBody(sym, data) ==
    CASE data.type # "object" -> Raised("AttributeError")
      [] data.seriesKind = "other" -> Raised("AttributeError")
      [] OTHER ->
            ParseLoop(sym,
                      IF data.seriesKind = "missing" THEN <<>> ELSE data.series,
                      data.meta, <<>>)

\* except Exception: return []
parse_stock_data(sym, data) ==
    LET result == ParseBody(sym, data)
    IN  IF result.tag = "raise" THEN <<>> ELSE result.value


(***************************************************************************)
(* Table stock_data and StockDataFetcher.store_data                        *)
(***************************************************************************)
VarcharSymbol == 10

\* symbol VARCHAR(10) NOT NULL; the DECIMAL(15, 4) columns hold no infinity
\* (the finite prices of the model are all within the precision).
SatisfiesSchema(record) ==
    /\ Len(record.symbol) <= VarcharSymbol
    /\ record.open_price.fin
    /\ record.high_price.fin
    /\ record.low_price.fin
    /\ record.close_price.fin

Key(r) == <<r.symbol, r.timestamp>>
Keys(rows) == {Key(r) : r \in rows}

\* The row an INSERT makes: created_at DEFAULT CURRENT_TIMESTAMP.
NewRow(record, now) ==
    [symbol |-> record.symbol,
     timestamp |-> record.timestamp,
     open_price |-> record.open_price.n,
     high_price |-> record.high_price.n,
     low_price |-> record.low_price.n,
     close_price |-> record.close_price.n,
     volume |-> record.volume,
     last_refreshed |-> record.last_refreshed,
     time_zone |-> record.time_zone,
     created_at |-> now]

\* Mutant of DoUpdate: last_refreshed is left out of the SET list.
DoUpdateStaleRefreshed(row, record) ==
    [row EXCEPT !.open_price = record.open_price.n,
                !.high_price = record.high_price.n,
                !.low_price = record.low_price.n,
                !.close_price = record.close_price.n,
                !.volume = record.volume]

\* Mutant of DoUpdate: volume = stock_data.volume + EXCLUDED.volume.
DoUpdateAddsVolume(row, record) ==
    [row EXCEPT !.open_price = record.open_price.n,
                !.high_price = record.high_price.n,
                !.low_price = record.low_price.n,
                !.close_price = record.close_price.n,
                !.volume = row.volume + record.volume,
                !.last_refreshed = record.last_refreshed]

\* Mutant of DoUpdate: the SET list also has time_zone = EXCLUDED.time_zone.
DoUpdateSetsTimeZone(row, record) ==
    [row EXCEPT !.open_price = record.open_price.n,
                !.high_price = record.high_price.n,
                !.low_price = record.low_price.n,
                !.close_price = record.close_price.n,
                !.volume = record.volume,
                !.last_refreshed = record.last_refreshed,
                !.time_zone = record.time_zone]

\* ON CONFLICT (symbol, timestamp) DO UPDATE SET ... = EXCLUDED. ...
DoUpdate(row, record) ==
    [row EXCEPT !.open_price = record.open_price.n,
                !.high_price = record.high_price.n,
                !.low_price = record.low_price.n,
                !.close_price = record.close_price.n,
                !.volume = record.volume,
                !.last_refreshed = record.last_refreshed]

\* Mutant of Upsert: a plain INSERT into a table without the primary key.
UpsertPlainInsert(rows, record, now) == rows \cup {NewRow(record, now)}

\* insert_sql on the rows the statement sees
Upsert(rows, record, now) ==
    IF Key(record) \in Keys(rows)
    THEN {IF Key(r) = Key(record) THEN DoUpdate(r, record) ELSE r : r \in rows}
    ELSE rows \cup {NewRow(record, now)}

\* conn.commit(): the statements of the transaction take effect, in order.
RECURSIVE Commit(_, _, _)
Commit(rows, writes, now) ==
    IF writes = <<>> THEN rows
    ELSE Commit(Upsert(rows, Head(writes), now), Tail(writes), now)

\* Mutant of CreateTableIfNotExists: DROP TABLE IF EXISTS, then CREATE TABLE.
DropAndCreateTable(rows) == {}

\* CREATE TABLE IF NOT EXISTS stock_data: the rows of an existing table stay.
CreateTableIfNotExists(rows) == rows

\* History: per key the observation last committed, and the time and the
\* time zone of the transaction that first committed the key.
RECURSIVE Record(_, _, _)
Record(hist, writes, now) ==
    IF writes = <<>> THEN hist
    ELSE LET w == Head(writes)
             k == Key(w)
             e == IF k \in DOMAIN hist
                  THEN [hist[k] EXCEPT !.obs = w]
                  ELSE [obs |-> w, first |-> now, zone |-> w.time_zone]
         IN  Record((k :> e) @@ hist, Tail(writes), now)

(***************************************************************************)
(* Inputs of a DAG run.                                                    *)
(***************************************************************************)
Placeholder == "your_alpha_vantage_api_key_here"
ApiKeys == {NoneStr, "", Placeholder, "demo"}

\* Mutant of InvalidKey: the placeholder is not checked.
InvalidKeyNoPlaceholder(key) == key \in {NoneStr, ""}

\* not api_key or api_key == 'your_alpha_vantage_api_key_here'
InvalidKey(key) == key \in {NoneStr, ""} \/ key = Placeholder

aapl_ == <<"a", "a", "p", "l", " ">>
MSFT == <<"M", "S", "F", "T">>
Blank == <<" ">>
TooLong == <<"m", "s", "f", "t", "m", "s", "f", "t", "m", "s", "f">>
RawSymbols == {aapl_, MSFT, Blank, TooLong}

\* os.getenv('STOCK_SYMBOLS', 'AAPL').split(','): at least one entry
SymbolLists == {<<aapl_, MSFT>>, <<MSFT, Blank, aapl_>>, <<TooLong, MSFT>>,
                <<aapl_, aapl_>>, <<Blank>>}

T10 == "2024-01-01 10:00:00"
T10short == "2024-1-1 10:00:00"
T11 == "2024-01-01 11:00:00"

PipelineResponses ==
    {Transport("timeout", None),
     Json(JsonNull),
     Json(JsonList(<<"x">>)),
     Json(Object(FALSE, TRUE, "missing", <<>>, MetaMissing)),
     Json(DataBody(<<Entry(T10, Good1), Entry(T11, Good2)>>, MetaA)),
     Json(DataBody(<<Entry(T10, Good2)>>, MetaB)),
     Json(DataBody(<<Entry(T10, Good1), Entry(T11, InfiniteHigh)>>, MetaA)),
     Json(DataBody(<<Entry(T10, Good1), Entry(T10short, Good2)>>, MetaB))}

(***************************************************************************)
(* The DAG run: create_table_task >> fetch_data_task                       *)
(***************************************************************************)
NoStore == <<store, tableExists, clock, written>>
NoCall == <<arg, ret, plan, txs>>
NoTx == <<cursor, txWrites, txStart>>
NoCounters == <<successful_symbols, total_records>>
NoInputs == <<runs, api_key, symbols>>

Idle ==
    /\ pc = "idle"
    /\ api_key = NoneStr
    /\ symbols = <<>>
    /\ idx = 0
    /\ symbol = <<>>
    /\ raw_data = None
    /\ parsed_data = <<>>
    /\ cursor = 0
    /\ txWrites = <<>>
    /\ txStart = 0
    /\ successful_symbols = 0
    /\ total_records = 0
    /\ log = <<>>
    /\ summaries = <<>>

\* No fixed answers of the provider, no second run.
NoPlan == [symbols |-> <<>>, responses |-> <<>>]
NoOverlap == <<>>

Init ==
    /\ store = {}
    /\ tableExists = FALSE
    /\ clock = 1
    /\ runs = 0
    /\ written = <<>>
    /\ arg = None
    /\ ret = [done |-> FALSE, out |-> <<>>]
    /\ plan = NoPlan
    /\ txs = NoOverlap
    /\ Idle

\* The scheduler starts a run with the environment's key and symbols.
StartRun(key, syms) ==
    /\ pc \in {"idle", "done", "crashed", "upstream_failed"}
    /\ runs < MaxRuns
    /\ runs' = runs + 1
    /\ api_key' = key
    /\ symbols' = syms
    /\ pc' = "create_stock_table"
    /\ idx' = 0
    /\ symbol' = <<>>
    /\ raw_data' = None
    /\ parsed_data' = <<>>
    /\ cursor' = 0
    /\ txWrites' = <<>>
    /\ txStart' = 0
    /\ successful_symbols' = 0
    /\ total_records' = 0
    /\ log' = <<>>
    /\ summaries' = <<>>
    /\ UNCHANGED <<NoStore, NoCall>>

\* create_stock_table; when the hook cannot run it the task fails and the
\* downstream task is not run.
create_stock_table(up) ==
    /\ pc = "create_stock_table"
    /\ IF up
       THEN /\ tableExists' = TRUE
            /\ store' = CreateTableIfNotExists(store)
            /\ pc' = "fetch_and_process_stock_data"
       ELSE /\ pc' = "upstream_failed"
            /\ UNCHANGED <<tableExists, store>>
    /\ UNCHANGED <<clock, written, NoInputs, idx, symbol, raw_data, parsed_data,
                   NoTx, NoCounters, log, summaries, NoCall>>

\* fetch_and_process_stock_data, lines 130-137
CredentialGate ==
    /\ pc = "fetch_and_process_stock_data"
    /\ IF InvalidKey(api_key)
       THEN /\ pc' = "done"
            /\ UNCHANGED <<idx, NoCounters>>
       ELSE /\ pc' = "loop"
            /\ idx' = 1
            /\ successful_symbols' = 0
            /\ total_records' = 0
    /\ UNCHANGED <<NoStore, NoInputs, symbol, raw_data, parsed_data, NoTx,
                   log, summaries, NoCall>>

\* for symbol in symbols: symbol = symbol.strip().upper(); if not symbol: continue
LoopSkipEmpty ==
    /\ pc = "loop"
    /\ idx <= Len(symbols)
    /\ upper(strip(symbols[idx])) = <<>>
    /\ idx' = idx + 1
    /\ UNCHANGED <<NoStore, NoInputs, pc, symbol, raw_data, parsed_data, NoTx,
                   NoCounters, log, summaries, NoCall>>

LoopSymbol ==
    /\ pc = "loop"
    /\ idx <= Len(symbols)
    /\ upper(strip(symbols[idx])) # <<>>
    /\ symbol' = upper(strip(symbols[idx]))
    /\ pc' = "fetch"
    /\ UNCHANGED <<NoStore, NoInputs, idx, raw_data, parsed_data, NoTx,
                   NoCounters, log, summaries, NoCall>>

\* line 166, after the loop
Summary ==
    /\ pc = "loop"
    /\ idx > Len(symbols)
    /\ summaries' = Append(summaries, [processed |-> successful_symbols,
                                       of |-> Len(symbols),
                                       records |-> total_records])
    /\ pc' = "done"
    /\ UNCHANGED <<NoStore, NoInputs, idx, symbol, raw_data, parsed_data, NoTx,
                   NoCounters, log, NoCall>>

\* One entry per request: the list index, the symbol, the outcome of the
\* symbol's last stage with its record count and, for a stored batch, the
\* number of distinct (symbol, timestamp) keys it held.
LogEntry(outcome, n) ==
    [i |-> idx, symbol |-> symbol, outcome |-> outcome, n |-> n,
     keys |-> IF outcome = "stored"
              THEN Cardinality({Key(parsed_data[j]) : j \in 1..Len(parsed_data)})
              ELSE 0]

\* The last entry of the log, rewritten when the symbol's next stage ends.
Outcome(outcome, n) == [log EXCEPT ![Len(log)] = LogEntry(outcome, n)]

\* continue, or the end of the loop body
NextSymbol ==
    /\ idx' = idx + 1
    /\ pc' = "loop"
    /\ symbol' = <<>>
    /\ raw_data' = None
    /\ parsed_data' = <<>>
    /\ cursor' = 0
    /\ txWrites' = <<>>
    /\ txStart' = 0

\* raw_data = fetcher.fetch_stock_data(symbol); if not raw_data: continue.
\* An exception fetch_stock_data does not catch leaves the function: the
\* task fails.
Fetch(resp) ==
    /\ pc = "fetch"
    /\ LET r == fetch_stock_data(resp)
       IN  CASE r.tag = "raise" ->
                   /\ log' = Append(log, LogEntry("fetch_raised", 0))
                   /\ pc' = "crashed"
                   /\ UNCHANGED <<idx, symbol, raw_data, parsed_data, NoTx>>
             [] r.tag = "return" /\ Falsy(r.value) ->
                   /\ log' = Append(log, LogEntry("no_data", 0))
                   /\ NextSymbol
             [] OTHER ->
                   /\ log' = Append(log, LogEntry("fetched", 0))
                   /\ raw_data' = r.value
                   /\ pc' = "parse"
                   /\ UNCHANGED <<idx, symbol, parsed_data, NoTx>>
    /\ UNCHANGED <<NoStore, NoInputs, NoCounters, summaries, NoCall>>

\* Mutant of Parse: the check "if not parsed_data: continue" is missing.
ParseSkipsEmptyCheck ==
    /\ pc = "parse"
    /\ log' = Outcome("parsed", Len(parse_stock_data(symbol, raw_data)))
    /\ parsed_data' = parse_stock_data(symbol, raw_data)
    /\ raw_data' = None
    /\ pc' = "store"
    /\ UNCHANGED <<idx, symbol, NoTx>>
    /\ UNCHANGED <<NoStore, NoInputs, NoCounters, summaries, NoCall>>

\* parsed_data = fetcher.parse_stock_data(symbol, raw_data);
\* if not parsed_data: continue
Parse ==
    /\ pc = "parse"
    /\ LET parsed == parse_stock_data(symbol, raw_data)
       IN  IF parsed = <<>>
           THEN /\ log' = Outcome("no_valid_data", 0)
                /\ NextSymbol
           ELSE /\ log' = Outcome("parsed", Len(parsed))
                /\ parsed_data' = parsed
                /\ raw_data' = None
                /\ pc' = "store"
                /\ UNCHANGED <<idx, symbol, NoTx>>
    /\ UNCHANGED <<NoStore, NoInputs, NoCounters, summaries, NoCall>>

\* Mutant of StoreFailed: the handler commits what the transaction wrote.
StoreFailedCommits ==
    /\ log' = Outcome("store_failed", Len(txWrites))
    /\ NextSymbol
    /\ store' = Commit(store, txWrites, txStart)
    /\ UNCHANGED <<written, NoCounters>>

\* store_data, lines 124-126: the exception is logged and False returned, the
\* connection is dropped with its transaction not committed; the runner logs
\* the error and goes to the next symbol. n: the statements that had run.
StoreFailed ==
    /\ log' = Outcome("store_failed", Len(txWrites))
    /\ NextSymbol
    /\ UNCHANGED <<store, written, NoCounters>>

\* Mutant of StoreConnect: the check "if not data: return False" is missing.
StoreConnectNoEmptyCheck(up) ==
    /\ pc = "store"
    /\ IF ~up
       THEN StoreFailed /\ UNCHANGED clock
       ELSE /\ txStart' = clock
            /\ clock' = clock + 1
            /\ cursor' = 1
            /\ txWrites' = <<>>
            /\ pc' = "execute"
            /\ UNCHANGED <<store, written, NoCounters, log, idx, symbol,
                           raw_data, parsed_data>>
    /\ UNCHANGED <<tableExists, NoInputs, summaries, NoCall>>

\* store_data, lines 82-88: the connection opens a transaction
StoreConnect(up) ==
    /\ pc = "store"
    /\ IF parsed_data = <<>> \/ ~up
       THEN StoreFailed /\ UNCHANGED clock
       ELSE /\ txStart' = clock
            /\ clock' = clock + 1
            /\ cursor' = 1
            /\ txWrites' = <<>>
            /\ pc' = "execute"
            /\ UNCHANGED <<store, written, NoCounters, log, idx, symbol,
                           raw_data, parsed_data>>
    /\ UNCHANGED <<tableExists, NoInputs, summaries, NoCall>>

\* store_data, lines 104-115: one cursor.execute
StoreExecute(up) ==
    /\ pc = "execute"
    /\ cursor <= Len(parsed_data)
    /\ IF up /\ tableExists /\ SatisfiesSchema(parsed_data[cursor])
       THEN /\ txWrites' = Append(txWrites, parsed_data[cursor])
            /\ cursor' = cursor + 1
            /\ UNCHANGED <<store, written, NoCounters, log, idx, symbol, pc,
                           raw_data, parsed_data, txStart>>
       ELSE StoreFailed
    /\ UNCHANGED <<tableExists, clock, NoInputs, summaries, NoCall>>

\* Mutant of StoreCommit: total_records += 1 for a stored batch.
StoreCommitCountsOne(up) ==
    /\ pc = "execute"
    /\ cursor > Len(parsed_data)
    /\ IF up
       THEN /\ store' = Commit(store, txWrites, txStart)
            /\ written' = Record(written, txWrites, txStart)
            /\ successful_symbols' = successful_symbols + 1
            /\ total_records' = total_records + 1
            /\ log' = Outcome("stored", Len(parsed_data))
            /\ NextSymbol
       ELSE StoreFailed
    /\ UNCHANGED <<tableExists, clock, NoInputs, summaries, NoCall>>

\* store_data, lines 117-122, and lines 159-162 of the runner
StoreCommit(up) ==
    /\ pc = "execute"
    /\ cursor > Len(parsed_data)
    /\ IF up
       THEN /\ store' = Commit(store, txWrites, txStart)
            /\ written' = Record(written, txWrites, txStart)
            /\ successful_symbols' = successful_symbols + 1
            /\ total_records' = total_records + Len(parsed_data)
            /\ log' = Outcome("stored", Len(parsed_data))
            /\ NextSymbol
       ELSE StoreFailed
    /\ UNCHANGED <<tableExists, clock, NoInputs, summaries, NoCall>>

Next ==
    \/ \E key \in ApiKeys, syms \in SymbolLists : StartRun(key, syms)
    \/ \E up \in BOOLEAN : create_stock_table(up)
    \/ CredentialGate
    \/ LoopSkipEmpty
    \/ LoopSymbol
    \/ Summary
    \/ \E resp \in PipelineResponses : Fetch(resp)
    \/ Parse
    \/ \E up \in BOOLEAN : StoreConnect(up)
    \/ \E up \in BOOLEAN : StoreExecute(up)
    \/ \E up \in BOOLEAN : StoreCommit(up)

Spec == Init /\ [][Next]_vars


(***************************************************************************)
(* fetch_stock_data and parse_stock_data on their own.                     *)
(***************************************************************************)
Bodies(n) ==
    {Object(e, m, "mapping", ts, md) :
        e \in BOOLEAN, m \in BOOLEAN, ts \in TimeSeriesOf(n), md \in MetaDatas}
    \cup {Object(e, m, k, <<>>, md) :
        e \in BOOLEAN, m \in BOOLEAN, k \in {"missing", "other"}, md \in MetaDatas}
    \cup {JsonNull, JsonNumber, NonObject("boolean", <<>>),
          JsonList(<<>>), JsonList(<<"x">>), JsonList(<<"Note">>),
          JsonList(<<"Error Message">>),
          JsonString(<<>>), JsonString(<<"o", "o", "p", "s">>)}

FetchInputs ==
    TransportFailures \cup {Undecodable} \cup {Json(b) : b \in Bodies(1)}

\* What fetch_stock_data hands to parse_stock_data: a truthy body without
\* 'Error Message' and 'Note'.
ParseInputs(n) == {b \in Bodies(n) : ~b.err /\ ~b.note /\ ~Falsy(b)}

AAPL == <<"A", "A", "P", "L">>

Pending == [done |-> FALSE, out |-> <<>>]

InitCall(inputs) ==
    /\ store = {}
    /\ tableExists = FALSE
    /\ clock = 1
    /\ runs = 0
    /\ written = <<>>
    /\ arg \in inputs
    /\ ret = Pending
    /\ plan = NoPlan
    /\ txs = NoOverlap
    /\ Idle

NoRun == <<store, tableExists, clock, runs, pc, api_key, symbols, idx, symbol,
           raw_data, parsed_data, cursor, txWrites, txStart,
           successful_symbols, total_records, log, summaries, written,
           plan, txs>>

CallFetch ==
    /\ ~ret.done
    /\ ret' = [done |-> TRUE, out |-> fetch_stock_data(arg)]
    /\ UNCHANGED <<arg, NoRun>>

CallParse ==
    /\ ~ret.done
    /\ ret' = [done |-> TRUE, out |-> parse_stock_data(AAPL, arg)]
    /\ UNCHANGED <<arg, NoRun>>

SpecFetch == InitCall(FetchInputs) /\ [][CallFetch]_vars

SpecParse == InitCall(ParseInputs(MaxEntries)) /\ [][CallParse]_vars

(***************************************************************************)
(* store_data on its own, and the runner's parse and store steps of one    *)
(* symbol: store_data is called with a sequence of observations (the empty *)
(* sequence included), or the runner is about to parse a response.         *)
(***************************************************************************)
\* Responses the runner parses: every time series of at most n entries, a
\* time series that is no mapping, and a body that is no object.
StoreBodies(n) ==
    {DataBody(ts, MetaA) : ts \in TimeSeriesOf(n)}
    \cup {Object(FALSE, FALSE, "other", <<>>, MetaA), JsonNumber}

\* What parse_stock_data can hand to store_data, and the empty sequence.
StoreInputs(n) == {<<>>} \cup {parse_stock_data(AAPL, b) : b \in StoreBodies(n)}

\* Rows an earlier run committed.
EarlierBatch == parse_stock_data(AAPL, DataBody(<<Entry(T10, Good1)>>, MetaA))

\* arg keeps what the step was given: the data of a direct store_data call,
\* or the response the runner parses.
InitStoreCall ==
    /\ \/ /\ store = {}
          /\ written = <<>>
          /\ tableExists \in BOOLEAN
       \/ /\ store = Commit({}, EarlierBatch, 1)
          /\ written = Record(<<>>, EarlierBatch, 1)
          /\ tableExists = TRUE
    /\ clock = 2
    /\ runs = 1
    /\ api_key = "demo"
    /\ symbols = <<AAPL>>
    /\ idx = 1
    /\ symbol = AAPL
    /\ \/ /\ pc = "store"
          /\ parsed_data \in StoreInputs(MaxEntries)
          /\ raw_data = None
          /\ arg = [data |-> parsed_data, body |-> None]
          /\ log = <<[i |-> 1, symbol |-> AAPL, outcome |-> "parsed",
                      n |-> Len(parsed_data), keys |-> 0]>>
       \/ /\ pc = "parse"
          /\ parsed_data = <<>>
          /\ raw_data \in StoreBodies(MaxEntries)
          /\ arg = [data |-> <<>>, body |-> raw_data]
          /\ log = <<[i |-> 1, symbol |-> AAPL, outcome |-> "fetched",
                      n |-> 0, keys |-> 0]>>
    /\ cursor = 0
    /\ txWrites = <<>>
    /\ txStart = 0
    /\ successful_symbols = 0
    /\ total_records = 0
    /\ summaries = <<>>
    /\ ret = Pending
    /\ plan = NoPlan
    /\ txs = NoOverlap

NextStoreCall ==
    \/ Parse
    \/ \E up \in BOOLEAN : StoreConnect(up)
    \/ \E up \in BOOLEAN : StoreExecute(up)
    \/ \E up \in BOOLEAN : StoreCommit(up)

SpecStore == InitStoreCall /\ [][NextStoreCall]_vars

(***************************************************************************)
(* Runs that can be killed. The provider gives the same answer to the same *)
(* request of every run (plan); the database stays reachable.              *)
(***************************************************************************)
CrashPlans ==
    {[symbols |-> <<aapl_, MSFT>>,
      responses |-> <<Json(DataBody(<<Entry(T10, Good1), Entry(T11, Good2)>>, MetaA)),
                      Json(DataBody(<<Entry(T10, Good2)>>, MetaB))>>],
     [symbols |-> <<aapl_, aapl_>>,
      responses |-> <<Json(DataBody(<<Entry(T10, Good1), Entry(T11, Good2)>>, MetaA)),
                      Json(DataBody(<<Entry(T10, Good2)>>, MetaB))>>],
     [symbols |-> <<MSFT, Blank, aapl_>>,
      responses |-> <<Json(DataBody(<<Entry(T10, Good1), Entry(T11, InfiniteHigh)>>, MetaA)),
                      Transport("timeout", None),
                      Json(DataBody(<<Entry(T10, Good1), Entry(T10short, Good2)>>, MetaB))>>],
     [symbols |-> <<TooLong, MSFT>>,
      responses |-> <<Json(DataBody(<<Entry(T10, Good2)>>, MetaB)),
                      Json(Object(FALSE, TRUE, "missing", <<>>, MetaMissing))>>]}

InitCrash ==
    /\ store = {}
    /\ tableExists = FALSE
    /\ clock = 1
    /\ runs = 0
    /\ written = <<>>
    /\ arg = None
    /\ ret = Pending
    /\ plan \in CrashPlans
    /\ txs = NoOverlap
    /\ Idle

\* requests.get answers the request of the loop's entry as the plan says.
FetchPlanned ==
    /\ pc = "fetch"
    /\ Fetch(plan.responses[idx])

\* The worker dies between two steps: the function does not go on, and the
\* open transaction, which only conn.commit() (line 117) ends, is rolled
\* back by the server when the connection is lost.
Kill ==
    /\ pc \notin {"idle", "done", "crashed", "upstream_failed"}
    /\ pc' = "crashed"
    /\ UNCHANGED <<NoStore, NoInputs, idx, symbol, raw_data, parsed_data, NoTx,
                   NoCounters, log, summaries, NoCall>>

NextCrash ==
    \/ StartRun("demo", plan.symbols)
    \/ \E up \in BOOLEAN : create_stock_table(up)
    \/ CredentialGate
    \/ LoopSkipEmpty
    \/ LoopSymbol
    \/ Summary
    \/ FetchPlanned
    \/ Parse
    \/ StoreConnect(TRUE)
    \/ StoreExecute(TRUE)
    \/ StoreCommit(TRUE)
    \/ Kill

SpecCrash == InitCrash /\ [][NextCrash]_vars

(***************************************************************************)
(* Two runs at once (the DAG sets no max_active_runs): the store_data      *)
(* calls of run 1 and run 2, one call per symbol whose parse produced      *)
(* observations, each in a transaction of its own connection. The server   *)
(* runs them READ COMMITTED: a statement on a key that the open            *)
(* transaction of the other run has written waits for that transaction to  *)
(* end, and of two transactions that wait for each other one is aborted.   *)
(***************************************************************************)
AaplFirst == parse_stock_data(AAPL,
                 DataBody(<<Entry(T10, Good1), Entry(T11, Good2)>>, MetaA))
AaplSecond == parse_stock_data(AAPL,
                  DataBody(<<Entry(T11, Good1), Entry(T10, Good2)>>, MetaB))
AaplInfinite == parse_stock_data(AAPL,
                    DataBody(<<Entry(T10, Good2), Entry(T11, InfiniteHigh)>>, MetaB))
MsftOnly == parse_stock_data(MSFT, DataBody(<<Entry(T10, Good1)>>, MetaA))

\* The batches of run 1 and of run 2, in the order of their symbol lists.
OverlapPlans ==
    {<<<<AaplFirst, MsftOnly>>, <<AaplSecond>>>>,
     <<<<AaplFirst>>, <<AaplInfinite, MsftOnly>>>>,
     <<<<MsftOnly, AaplSecond>>, <<AaplFirst, MsftOnly>>>>,
     <<<<AaplFirst>>, <<AaplFirst>>>>}

\* A run about to call store_data with its k-th batch.
Calling(batches, k, results) ==
    [batches |-> batches, k |-> k, results |-> results,
     pc |-> IF k > Len(batches) THEN "done" ELSE "store",
     cursor |-> 0, writes |-> <<>>, start |-> 0]

InitOverlap ==
    /\ store = {}
    /\ tableExists = TRUE
    /\ clock = 1
    /\ runs = 2
    /\ written = <<>>
    /\ arg = None
    /\ ret = Pending
    /\ plan = NoPlan
    /\ \E p \in OverlapPlans :
          txs = <<Calling(p[1], 1, <<>>), Calling(p[2], 1, <<>>)>>
    /\ Idle

NoPipeline == <<tableExists, runs, pc, api_key, symbols, idx, symbol, raw_data,
               parsed_data, NoTx, NoCounters, log, summaries, arg, ret, plan>>

Other(r) == 3 - r
Batch(r) == txs[r].batches[txs[r].k]

\* The keys the open transaction of run r has written, which it keeps
\* locked until it ends.
LockedKeys(r) ==
    IF txs[r].pc = "execute"
    THEN {Key(txs[r].writes[j]) : j \in 1..Len(txs[r].writes)}
    ELSE {}

\* The statement run r is about to execute has to wait for the other run.
Waiting(r) ==
    /\ txs[r].pc = "execute"
    /\ txs[r].cursor <= Len(Batch(r))
    /\ SatisfiesSchema(Batch(r)[txs[r].cursor])
    /\ Key(Batch(r)[txs[r].cursor]) \in LockedKeys(Other(r))

\* except Exception: return False; the transaction is never committed.
RunFailed(r) ==
    /\ txs' = [txs EXCEPT ![r] = Calling(txs[r].batches, txs[r].k + 1,
                                         Append(txs[r].results, "store_failed"))]
    /\ UNCHANGED <<store, written>>

\* store_data, lines 82-88
RunConnect(r, up) ==
    /\ txs[r].pc = "store"
    /\ IF Batch(r) = <<>> \/ ~up
       THEN RunFailed(r) /\ UNCHANGED clock
       ELSE /\ txs' = [txs EXCEPT ![r].pc = "execute", ![r].cursor = 1,
                                  ![r].writes = <<>>, ![r].start = clock]
            /\ clock' = clock + 1
            /\ UNCHANGED <<store, written>>
    /\ UNCHANGED NoPipeline

\* Mutant of RunExecute: the connection is in autocommit mode.
RunExecuteAutocommit(r, up) ==
    /\ txs[r].pc = "execute"
    /\ txs[r].cursor <= Len(Batch(r))
    /\ IF up /\ SatisfiesSchema(Batch(r)[txs[r].cursor])
       THEN /\ txs' = [txs EXCEPT ![r].cursor = @ + 1]
            /\ store' = Upsert(store, Batch(r)[txs[r].cursor], txs[r].start)
            /\ written' = Record(written, <<Batch(r)[txs[r].cursor]>>, txs[r].start)
       ELSE RunFailed(r)
    /\ UNCHANGED <<clock, NoPipeline>>

\* store_data, lines 104-115: one cursor.execute. A record the columns
\* cannot hold fails before any row is touched.
RunExecute(r, up) ==
    /\ txs[r].pc = "execute"
    /\ txs[r].cursor <= Len(Batch(r))
    /\ IF up /\ SatisfiesSchema(Batch(r)[txs[r].cursor])
       THEN /\ ~Waiting(r)
            /\ txs' = [txs EXCEPT ![r].cursor = @ + 1,
                                  ![r].writes = Append(@, Batch(r)[txs[r].cursor])]
            /\ UNCHANGED <<store, written>>
       ELSE RunFailed(r)
    /\ UNCHANGED <<clock, NoPipeline>>

\* Both runs wait for each other: the server aborts the statement of one of
\* them, cursor.execute raises, store_data returns False.
RunDeadlock(r) ==
    /\ Waiting(r)
    /\ Waiting(Other(r))
    /\ RunFailed(r)
    /\ UNCHANGED <<clock, NoPipeline>>

\* store_data, lines 117-122
RunCommit(r, up) ==
    /\ txs[r].pc = "execute"
    /\ txs[r].cursor > Len(Batch(r))
    /\ IF up
       THEN /\ store' = Commit(store, txs[r].writes, txs[r].start)
            /\ written' = Record(written, txs[r].writes, txs[r].start)
            /\ txs' = [txs EXCEPT ![r] = Calling(txs[r].batches, txs[r].k + 1,
                                                 Append(txs[r].results, "stored"))]
       ELSE RunFailed(r)
    /\ UNCHANGED <<clock, NoPipeline>>

NextOverlap ==
    \/ \E r \in 1..2, up \in BOOLEAN : RunConnect(r, up)
    \/ \E r \in 1..2, up \in BOOLEAN : RunExecute(r, up)
    \/ \E r \in 1..2 : RunDeadlock(r)
    \/ \E r \in 1..2, up \in BOOLEAN : RunCommit(r, up)

SpecOverlap == InitOverlap /\ [][NextOverlap]_vars


(***************************************************************************)
(* Vocabulary of the properties.                                           *)
(***************************************************************************)
NumericStrings == {"1.0", "2.0", "3.0", "10", "20", "inf"}
IntegerStrings == {"10", "20"}
WireFormat == {T10, T10short, T11}

\* All of open, high, low, close and volume present and numbers, and the
\* timestamp in the wire format.
WellFormed(e) ==
    /\ e.timestamp \in WireFormat
    /\ e.values.map
    /\ e.values.o \in NumericStrings
    /\ e.values.h \in NumericStrings
    /\ e.values.l \in NumericStrings
    /\ e.values.c \in NumericStrings
    /\ e.values.v \in IntegerStrings

\* The observation carries the parsed values of the entry's fields.
CarriesValuesOf(obs, e) ==
    /\ obs.timestamp = strptime(e.timestamp).value
    /\ obs.open_price = float(e.values.o).value
    /\ obs.high_price = float(e.values.h).value
    /\ obs.low_price = float(e.values.l).value
    /\ obs.close_price = float(e.values.c).value
    /\ obs.volume = int(e.values.v).value

RECURSIVE WellFormedOnly(_)
WellFormedOnly(series) ==
    IF series = <<>> THEN <<>>
    ELSE IF WellFormed(Head(series))
         THEN <<Head(series)>> \o WellFormedOnly(Tail(series))
         ELSE WellFormedOnly(Tail(series))

\* An entry whose mapping lacks none of the five fields, or that is no mapping.
NoFieldMissing(e) ==
    e.values.map => Absent \notin {e.values.o, e.values.h, e.values.l,
                                   e.values.c, e.values.v}

BadCredential(key) == key \in {NoneStr, "", Placeholder}

NonEmptyEntries(syms) == {j \in 1..Len(syms) : strip(syms[j]) # <<>>}

Stored(l) == {j \in 1..Len(l) : l[j].outcome = "stored"}

RECURSIVE StoredRecords(_)
StoredRecords(l) ==
    IF l = <<>> THEN 0
    ELSE (IF Head(l).outcome = "stored" THEN Head(l).n ELSE 0) + StoredRecords(Tail(l))

\* The records of stored batches that repeat a key of their own batch.
RECURSIVE RepeatedKeys(_)
RepeatedKeys(l) ==
    IF l = <<>> THEN 0
    ELSE (IF Head(l).outcome = "stored" THEN Head(l).n - Head(l).keys ELSE 0)
         + RepeatedKeys(Tail(l))

\* The non-empty entries of the list are pairwise distinct after
\* trimming and upper-casing.
DistinctSymbols(syms) ==
    \A i, j \in NonEmptyEntries(syms) :
        i # j => upper(strip(syms[i])) # upper(strip(syms[j]))

\* The rows an uninterrupted run leaves: the entries j..last of the list
\* processed one after the other on the rows given, the database reachable,
\* the first transaction starting at time now.
RECURSIVE UninterruptedRun(_, _, _, _, _, _)
UninterruptedRun(rows, now, syms, resps, j, last) ==
    IF j > last THEN rows
    ELSE LET sym == upper(strip(syms[j]))
             raw == fetch_stock_data(resps[j])
             batch == IF raw.tag = "raise" \/ Falsy(raw.value) THEN <<>>
                      ELSE parse_stock_data(sym, raw.value)
         IN  IF sym = <<>> \/ batch = <<>>
             THEN UninterruptedRun(rows, now, syms, resps, j + 1, last)
             ELSE IF \A k \in 1..Len(batch) : SatisfiesSchema(batch[k])
             THEN UninterruptedRun(Commit(rows, batch, now), now + 1,
                                   syms, resps, j + 1, last)
             ELSE UninterruptedRun(rows, now + 1, syms, resps, j + 1, last)

\* The rows without the column created_at.
ExceptCreatedAt(rows) == {[r EXCEPT !.created_at = 0] : r \in rows}

LastOutcome(l) == IF l = <<>> THEN "none" ELSE l[Len(l)].outcome

BatchKeys(batch) == {Key(batch[j]) : j \in 1..Len(batch)}
FirstOf(batch, k) ==
    batch[CHOOSE j \in 1..Len(batch) :
            Key(batch[j]) = k /\ \A i \in 1..(j - 1) : Key(batch[i]) # k]
LastOf(batch, k) ==
    batch[CHOOSE j \in 1..Len(batch) :
            Key(batch[j]) = k /\ \A i \in (j + 1)..Len(batch) : Key(batch[i]) # k]

RowOf(rows, k) == CHOOSE r \in rows : Key(r) = k

HasValuesOf(row, obs) ==
    /\ row.open_price = obs.open_price.n
    /\ row.high_price = obs.high_price.n
    /\ row.low_price = obs.low_price.n
    /\ row.close_price = obs.close_price.n
    /\ row.volume = obs.volume

(***************************************************************************)
(* Properties.                                                             *)
(***************************************************************************)
\* C1: the store never holds two rows with the same (symbol, timestamp); the
\* one row of a key has the open/high/low/close/volume of the latest
\* committed write for that key.
C1_OneRowPerKeyLatestValues ==
    /\ \A r1, r2 \in store : Key(r1) = Key(r2) => r1 = r2
    /\ Keys(store) = DOMAIN written
    /\ \A r \in store : HasValuesOf(r, written[Key(r)].obs)

\* C1 witness: a key first written from one response (US/Eastern) and then
\* overwritten with other prices by a later write, beside another row.
C1_Witness ==
    /\ Cardinality(store) >= 2
    /\ \E r \in store :
          /\ r.time_zone = "US/Eastern"
          /\ r.last_refreshed = MetaB.lr
          /\ r.open_price = 2
          /\ r.volume = 20

\* C2: the succeeded count is the number of symbols whose store call
\* succeeded, the record count the sum of their batch sizes, and when the run
\* is over every non-empty symbol of the list has been processed, whatever
\* the outcome of the others.
C2_PerSymbolIsolation ==
    /\ successful_symbols = Cardinality(Stored(log))
    /\ total_records = StoredRecords(log)
    /\ (pc \in {"done", "crashed"} /\ ~BadCredential(api_key)
          => {log[j].i : j \in 1..Len(log)} = NonEmptyEntries(symbols))

\* C3: no per-symbol failure ends the run; a finished run with a valid
\* credential has visited every non-empty symbol once, in list order, and has
\* logged exactly one summary.
C3_RunAlwaysCompletes ==
    /\ pc # "crashed"
    /\ \A a, b \in 1..Len(log) : a < b => log[a].i < log[b].i
    /\ (pc = "done" /\ ~BadCredential(api_key)
          => /\ Len(summaries) = 1
             /\ {log[j].i : j \in 1..Len(log)} = NonEmptyEntries(symbols))

\* C4: fetch_stock_data never raises; it returns the body exactly when the
\* transport succeeded, the body decoded and it carries neither an error
\* message nor a note, and no response otherwise.
C4_FetchNeverRaises ==
    ret.done =>
        /\ ret.out.tag = "return"
        /\ IF arg.kind = "json" /\ arg.body.type = "object"
              /\ ~arg.body.err /\ ~arg.body.note
           THEN ret.out.value = arg.body
           ELSE ret.out.value \in {None, arg.body}

\* C5: every observation parse_stock_data produces comes from a well-formed
\* data point and carries the parsed values of its fields, never a default.
C5_OnlyWellFormedPoints ==
    ret.done =>
        \A j \in 1..Len(ret.out) :
            \E i \in 1..Len(arg.series) :
                /\ WellFormed(arg.series[i])
                /\ CarriesValuesOf(ret.out[j], arg.series[i])

\* C6: for a time series whose entries are well-formed or malformed (bad
\* timestamp, non-numeric or null field, no field mapping), the result is
\* exactly the well-formed entries, in order.
C6_PartialCorruptionTolerance ==
    (/\ ret.done
     /\ arg.seriesKind = "mapping"
     /\ arg.meta.kind # "other"
     /\ \A i \in 1..Len(arg.series) : NoFieldMissing(arg.series[i]))
    => LET good == WellFormedOnly(arg.series)
       IN  /\ Len(ret.out) = Len(good)
           /\ \A j \in 1..Len(good) : CarriesValuesOf(ret.out[j], good[j])

\* C7: the store changes only at the commit of a batch, which then holds a
\* row for every record of the batch and counts as a success; a store call
\* that fails changes no row and no counter; rows of other keys stay.
C7_BatchAtomicity ==
    [][/\ (store' # store
             => /\ pc = "execute" /\ cursor > Len(parsed_data)
                /\ LastOutcome(log') = "stored"
                /\ successful_symbols' = successful_symbols + 1
                /\ BatchKeys(parsed_data) \subseteq Keys(store')
                /\ \A r \in store : Key(r) \notin BatchKeys(parsed_data) => r \in store')
       /\ (pc \in {"store", "execute"} /\ LastOutcome(log') = "store_failed"
             => /\ store' = store
                /\ successful_symbols' = successful_symbols
                /\ total_records' = total_records)]_vars

\* C7 witness: a batch failed after one of its statements had run, in a run
\* that had committed the batch of an earlier symbol.
C7_Witness ==
    \E a, b \in 1..Len(log) :
        /\ a < b
        /\ log[a].outcome = "stored"
        /\ log[b].outcome = "store_failed"
        /\ log[b].n >= 1
        /\ store # {}

\* C8: with an absent, empty or placeholder credential the runner attempts
\* no symbol, issues no request, opens no connection and changes no row.
C8_CredentialGate ==
    [][BadCredential(api_key') /\ pc' \in {"fetch_and_process_stock_data", "done",
                                          "loop", "fetch", "parse", "store",
                                          "execute", "crashed"}
         => /\ pc' \in {"fetch_and_process_stock_data", "done"}
            /\ log' = <<>>
            /\ summaries' = <<>>
            /\ idx' = 0
            /\ store' = store
            /\ clock' = clock]_vars

\* C8 witness: a run with the placeholder credential and two symbols has
\* ended, on a store that an earlier run filled.
C8_Witness ==
    /\ pc = "done"
    /\ api_key = Placeholder
    /\ Len(symbols) >= 2
    /\ store # {}
    /\ log = <<>>

\* C9: the set of (symbol, timestamp) keys in the store never shrinks, in
\* any step of any run, the table-creation step included.
C9_NoDataLost == [][Keys(store) \subseteq Keys(store')]_vars

\* C9 witness: a later run, on a store that holds rows, has met a fetch that
\* raised, or a store failure.
C9_Witness ==
    /\ runs >= 2
    /\ store # {}
    /\ \E j \in 1..Len(log) : log[j].outcome \in {"fetch_raised", "store_failed"}

\* C10: at a commit, a key that did not exist gets a row with all fields of
\* the observation and the transaction's time as created_at; a key that
\* existed gets the prices, volume and last_refreshed of the new observation
\* and keeps its created_at, which stays that of the first insertion.
C10_ConflictingWrite ==
    [][/\ \A r \in store' : r.created_at = written'[Key(r)].first
       /\ (store' # store
             => \A r2 \in store' :
                  IF Key(r2) \notin BatchKeys(parsed_data)
                  THEN r2 \in store
                  ELSE LET k == Key(r2)
                           new == LastOf(parsed_data, k)
                       IN  /\ HasValuesOf(r2, new)
                           /\ r2.last_refreshed = new.last_refreshed
                           /\ IF k \in Keys(store)
                              THEN r2.created_at = RowOf(store, k).created_at
                              ELSE /\ r2.created_at = txStart
                                   /\ r2.symbol = new.symbol
                                   /\ r2.timestamp = new.timestamp
                                   /\ r2.time_zone
                                        = FirstOf(parsed_data, k).time_zone)]_vars

\* C10 witness: a row created by an early transaction whose last_refreshed
\* comes from a later write.
C10_Witness ==
    \E r \in store :
        /\ r.created_at = 1
        /\ clock >= 3
        /\ r.last_refreshed # NoneStr
        /\ r.last_refreshed = written[Key(r)].obs.last_refreshed
        /\ r.time_zone # written[Key(r)].obs.time_zone

\* C11: within a run the parse stage is entered only from the fetch stage of
\* the same symbol, with a response; the store stage only from the parse
\* stage of the same symbol, with at least one observation; and the fetch
\* stage of a symbol only from the loop head, when nothing of the previous
\* symbol's stages is left open.
C11_StageOrdering ==
    [][/\ (pc' = "parse" => pc = "fetch" /\ idx' = idx /\ ~Falsy(raw_data'))
       /\ (pc' = "store"
             => pc = "parse" /\ idx' = idx /\ parsed_data' # <<>>
                /\ \A j \in 1..Len(parsed_data') : parsed_data'[j].symbol = symbol')
       /\ (pc' = "execute" => pc \in {"store", "execute"} /\ idx' = idx)
       /\ (pc' = "fetch"
             => /\ pc = "loop"
                /\ raw_data' = None /\ parsed_data' = <<>>
                /\ txWrites' = <<>> /\ cursor' = 0)
       /\ (idx' # idx /\ pc' = "loop" /\ pc # "fetch_and_process_stock_data"
             => /\ idx' = idx + 1
                /\ raw_data' = None /\ parsed_data' = <<>>
                /\ txWrites' = <<>> /\ cursor' = 0)]_vars

\* C11 witness: the second symbol of a run is in its store stage after the
\* first symbol went through fetch, parse and store.
C11_Witness ==
    /\ pc = "execute"
    /\ idx = 2
    /\ cursor = 2
    /\ Len(log) = 2
    /\ log[1].outcome = "stored"
    /\ log[2].outcome = "parsed"

\* C12: however the store transactions of two runs over overlapping symbols
\* interleave, the store has one row per (symbol, timestamp), the prices and
\* the volume of every row are those of one observation of one run's batch,
\* and the store changes only when a run commits a batch, whose records are
\* then all stored; a batch that fails leaves no row behind.
C12_OverlappingRuns ==
    [][/\ \A r1, r2 \in store' : Key(r1) = Key(r2) => r1 = r2
       /\ \A row \in store' :
             \E r \in 1..2 : \E b \in 1..Len(txs[r].batches) :
                \E j \in 1..Len(txs[r].batches[b]) :
                   /\ Key(txs[r].batches[b][j]) = Key(row)
                   /\ HasValuesOf(row, txs[r].batches[b][j])
       /\ (store' # store
             => \E r \in 1..2 :
                   /\ txs[r].pc = "execute"
                   /\ txs[r].cursor > Len(Batch(r))
                   /\ txs'[r].results = Append(txs[r].results, "stored")
                   /\ \A k \in BatchKeys(Batch(r)) :
                         /\ k \in Keys(store')
                         /\ HasValuesOf(RowOf(store', k), LastOf(Batch(r), k))
                   /\ \A row \in store :
                         Key(row) \notin BatchKeys(Batch(r)) => row \in store')
       /\ \A r \in 1..2 :
             txs'[r].results = Append(txs[r].results, "store_failed")
                => store' = store]_vars

\* C12 witness: the transactions of both runs are open at once, each has
\* written, and one of them has written a key whose row the other run
\* committed before.
C12_Witness ==
    /\ txs # NoOverlap
    /\ \A r \in 1..2 : txs[r].pc = "execute" /\ txs[r].writes # <<>>
    /\ \E r \in 1..2 :
          /\ "stored" \in {txs[r].results[j] : j \in 1..Len(txs[r].results)}
          /\ LockedKeys(Other(r)) \cap Keys(store) # {}

\* C13 as stated: at every point of a first run, so wherever it is killed, the
\* store holds exactly the rows of the symbols processed before that point
\* and no row of another symbol; and when a later run over the same
\* responses has ended, the store is the one an uninterrupted run leaves.
C13_CrashAndRerun ==
    /\ (runs = 1
          => store = UninterruptedRun({}, 1, symbols, plan.responses, 1, idx - 1))
    /\ (pc = "done" /\ runs >= 2
          => \E t \in 1..clock :
                store = UninterruptedRun({}, t, symbols, plan.responses,
                                         1, Len(symbols)))

\* C13 amended: the same, but the store after the re-run equals the one of
\* an uninterrupted run in every column except created_at.
C13_CrashAndRerunExceptCreatedAt ==
    /\ (runs = 1
          => store = UninterruptedRun({}, 1, symbols, plan.responses, 1, idx - 1))
    /\ (pc = "done"
          => ExceptCreatedAt(store) =
                ExceptCreatedAt(UninterruptedRun({}, 1, symbols, plan.responses,
                                                 1, Len(symbols))))

\* C13 witness: the first run was killed after it had committed its first
\* symbol, and the re-run has ended: the rows of the first symbol are older
\* than the re-run.
C13_Witness ==
    /\ pc = "done"
    /\ runs = 2
    /\ Cardinality(store) = 3
    /\ \E r1, r2 \in store :
          /\ r1.created_at = 1
          /\ r2.created_at = 3
          /\ r1.symbol # r2.symbol

\* C14: store_data called with an empty sequence returns False, which the
\* runner does not count as a success, without opening a connection and
\* without changing a row; a symbol whose parse produced no observation
\* never reaches store_data and is never counted as succeeded; and no
\* success is ever counted for an empty batch.
C14_EmptyInputNoOp ==
    [][/\ (pc = "store" /\ parsed_data = <<>>
             => /\ LastOutcome(log') = "store_failed"
                /\ pc' # "execute"
                /\ clock' = clock /\ txStart' = txStart /\ txWrites' = txWrites
                /\ store' = store /\ written' = written
                /\ successful_symbols' = successful_symbols
                /\ total_records' = total_records)
       /\ (pc = "parse" /\ parse_stock_data(symbol, raw_data) = <<>>
             => /\ LastOutcome(log') = "no_valid_data"
                /\ pc' \notin {"store", "execute"}
                /\ store' = store
                /\ successful_symbols' = successful_symbols
                /\ total_records' = total_records)
       /\ (successful_symbols' # successful_symbols \/ store' # store
             => parsed_data # <<>>)]_vars

\* C14 witness: store_data was called with the empty sequence on a store
\* that holds rows, and has returned.
C14_Witness ==
    /\ arg = [data |-> <<>>, body |-> None]
    /\ pc = "loop"
    /\ LastOutcome(log) = "store_failed"
    /\ store # {}
    /\ clock = 2
    /\ successful_symbols = 0

\* C15: a run with a valid credential ends with a summary whose attempted
\* count is the number of entries the runner processed (entries that are
\* empty after trimming are not attempted), whose succeeded count is the
\* number of symbols stored and whose record count is the number of records
\* stored, every symbol having been processed under its trimmed, upper-cased
\* form.
C15_RunSummary ==
    pc = "done" /\ ~BadCredential(api_key) =>
        /\ summaries # <<>>
        /\ summaries[Len(summaries)].of = Cardinality(NonEmptyEntries(symbols))
        /\ summaries[Len(summaries)].processed = Cardinality(Stored(log))
        /\ summaries[Len(summaries)].records = StoredRecords(log)
        /\ \A j \in 1..Len(log) : log[j].symbol = upper(strip(symbols[log[j].i]))

\* C16: within a run no entry of the symbol list is requested twice, only
\* non-empty entries are requested, and when the run has ended the number of
\* requests is the number of non-empty entries of the list.
C16_OneRequestPerEntry ==
    /\ \A j, k \in 1..Len(log) : j < k => log[j].i < log[k].i
    /\ \A j \in 1..Len(log) : log[j].i \in NonEmptyEntries(symbols)
    /\ (pc \in {"done", "crashed"} /\ ~BadCredential(api_key)
          => Len(log) = Cardinality(NonEmptyEntries(symbols)))

\* C17: every observation of one parse_stock_data call carries the
\* last_refreshed and time_zone of the response's metadata section (None
\* when the metadata lacks them), and the call produces as many observations
\* as it does for the same response with a complete metadata section: no
\* data point is dropped because the metadata values are absent.
C17_MetadataCopied ==
    ret.done =>
        /\ \A j \in 1..Len(ret.out) :
              /\ ret.out[j].last_refreshed =
                    (IF arg.meta.lr = Absent THEN NoneStr ELSE arg.meta.lr)
              /\ ret.out[j].time_zone =
                    (IF arg.meta.tz = Absent THEN NoneStr ELSE arg.meta.tz)
        /\ Len(ret.out) = Len(parse_stock_data(AAPL, [arg EXCEPT !.meta = MetaA]))

\* C18: a write to an existing (symbol, timestamp) leaves the row's time_zone
\* alone: every row carries the time_zone of the first write of its key,
\* next to the prices, volume and last_refreshed of the latest write.
C18_TimeZoneOfFirstWrite ==
    \A r \in store :
        /\ Key(r) \in DOMAIN written
        /\ r.time_zone = written[Key(r)].zone
        /\ r.last_refreshed = written[Key(r)].obs.last_refreshed
        /\ r.volume = written[Key(r)].obs.volume

\* C18 witness: a key first written with one time zone was written again
\* with another one.
C18_Witness ==
    \E r \in store :
        /\ Key(r) \in DOMAIN written
        /\ written[Key(r)].obs.time_zone # written[Key(r)].zone
        /\ r.last_refreshed = written[Key(r)].obs.last_refreshed
        /\ r.time_zone = "US/Eastern"

\* C19 as stated: at the end of a run with a valid credential that started on
\* an empty store, one request was made per non-empty entry, the summary
\* counts every stored occurrence and its records, and when the symbols are
\* pairwise distinct after trimming and upper-casing the store has as many
\* rows as the summary's total record count.
C19_RowsEqualTotalRecords ==
    pc = "done" /\ ~BadCredential(api_key) /\ runs = 1 =>
        /\ Len(log) = Cardinality(NonEmptyEntries(symbols))
        /\ summaries[Len(summaries)].processed = Cardinality(Stored(log))
        /\ summaries[Len(summaries)].records = StoredRecords(log)
        /\ (DistinctSymbols(symbols)
              => Cardinality(store) = summaries[Len(summaries)].records)

\* C19 amended: as above, but the rows of the store are the total record
\* count less the records that repeat a (symbol, timestamp) of their own
\* batch; the two are equal when no stored batch repeats a key.
C19_RowsEqualDistinctRecords ==
    pc = "done" /\ ~BadCredential(api_key) /\ runs = 1 =>
        /\ Len(log) = Cardinality(NonEmptyEntries(symbols))
        /\ \A j \in 1..Len(log) : log[j].symbol = upper(strip(symbols[log[j].i]))
        /\ summaries[Len(summaries)].processed = Cardinality(Stored(log))
        /\ summaries[Len(summaries)].records = StoredRecords(log)
        /\ (DistinctSymbols(symbols)
              => /\ Cardinality(store)
                      = summaries[Len(summaries)].records - RepeatedKeys(log)
                 /\ (RepeatedKeys(log) = 0
                       => Cardinality(store) = summaries[Len(summaries)].records))

\* C19 witness: a first run over two distinct symbols stored both batches,
\* one of which held the same timestamp twice: 4 records, 3 rows.
C19_Witness ==
    /\ pc = "done"
    /\ runs = 1
    /\ DistinctSymbols(symbols)
    /\ Stored(log) = {1, 2}
    /\ RepeatedKeys(log) = 1
    /\ summaries[Len(summaries)].records = 4
    /\ Cardinality(store) = 3

====
